---- MODULE Spec2Model ----
(***************************************************************************)
(* Paillier cryptosystem of sp1mul: Miller-Rabin prime generation, key     *)
(* derivation, encryption / decryption (paillier/src/main.rs) and the      *)
(* homomorphic operations on ciphertexts (paillier_rs/src/arithmetic.rs).  *)
(* Big integers are modelled by TLC integers; the bit lengths are kept     *)
(* small enough that every product stays below 2^31.                       *)
(***************************************************************************)
EXTENDS Integers, FiniteSets, Sequences, TLC

\* ---------------------------------------------------------------- bounds
\* largest bit length handed to paillier_keygen
MaxBits == 3
\* plaintext operands of the arithmetic session: 0..MaxM and n-1-MaxM..n-1
MaxM == 5
\* blinding factors of the arithmetic session: the MaxR smallest admissible
MaxR == 2
\* scalars of paillier_scalar_mul: 0..MaxK, and n, n+1
MaxK == 1
\* how far above n-1 a plaintext handed to paillier_encrypt may lie
MaxOver == 1
\* how many results are fed back as operand of a later operation
MaxChain == 1
\* is_prime is called directly on 0..MaxN (and on the larger listed numbers)
MaxN == 30
\* is_prime is called directly with 0..MaxRounds rounds (and with 20)
MaxRounds == 2

\* modinv is called directly on a in 0..MaxMod and m in 1..MaxMod
MaxMod == 150

\* rounds generate_prime asks of is_prime
MillerRabinRounds == 20

\* "no value": an unset local, Option::None
None == 0 - 1

VARIABLES
    pc,        \* position of the calling program
    bits,      \* argument of paillier_keygen
    mr_n,      \* is_prime: n
    mr_k,      \* is_prime: k
    mr_i,      \* is_prime: witness rounds completed
    mr_pc,     \* is_prime: "idle", "loop", "true", "false", "panic"
    p, q,      \* paillier_keygen: the two primes
    pubkey,    \* (n, g)
    privkey,   \* (lambda, mu)
    m1, m2,    \* plaintexts handed to paillier_encrypt
    r1, r2,    \* blinding factors paillier_encrypt drew for them
    c1, c2,    \* ciphertexts
    k,         \* scalar handed to paillier_scalar_mul
    op,        \* last operation performed
    out,       \* its BigUint result
    sdiff,     \* BigInt result of paillier_difference
    ge,        \* bool result of paillier_compare
    depth,     \* results fed back so far
    inv_a,     \* modinv: a
    inv_m,     \* modinv: m
    inv_x      \* modinv: the inverse returned, None for Option::None

vars == <<pc, bits, mr_n, mr_k, mr_i, mr_pc, p, q, pubkey, privkey,
          m1, m2, r1, r2, c1, c2, k, op, out, sdiff, ge, depth,
          inv_a, inv_m, inv_x>>

mrVars == <<mr_n, mr_k, mr_i, mr_pc>>
keyVars == <<p, q, pubkey, privkey>>
sessVars == <<m1, m2, r1, r2, c1, c2, k, op, out, sdiff, ge, depth>>
invVars == <<inv_a, inv_m, inv_x>>

\* ------------------------------------------------- big-integer library
\* BigUint::modpow: square and multiply
RECURSIVE modpow(_, _, _)
modpow(b, e, m) ==
    IF e = 0 THEN 1 % m
    ELSE LET h == modpow(b, e \div 2, m)
             sq == (h * h) % m
         IN  IF e % 2 = 1 THEN (sq * (b % m)) % m ELSE sq

\* Integer::gcd
RECURSIVE gcd(_, _)
gcd(a, b) == IF b = 0 THEN a ELSE gcd(b, a % b)

\* BigInt % : the remainder takes the sign of the dividend
rem(a, b) == IF a >= 0 THEN a % b ELSE 0 - ((0 - a) % b)

\* mathematical primality, used to state the claims
IsPrimeNat(n) == n >= 2 /\ \A f \in 2..(n - 1) : f * f > n \/ n % f # 0

\* ------------------------------------------------------------- is_prime
\* n - 1 = 2^s * d with d odd
RECURSIVE OddPart(_)
OddPart(d) == IF d % 2 = 0 THEN OddPart(d \div 2) ELSE d

RECURSIVE TwoExp(_)
TwoExp(d) == IF d % 2 = 0 THEN 1 + TwoExp(d \div 2) ELSE 0

\* the early returns of is_prime
IsPrimeEntry(n) ==
    IF n < 2 THEN "false"
    ELSE IF n = 2 THEN "true"
    ELSE IF n % 2 = 0 THEN "false"
    ELSE "loop"

\* gen_biguint_range(2, n - 2): the half-open range [2, n - 2)
Witnesses(n) == 2..(n - 3)

\* gen_biguint_range asserts lbound < ubound
WitnessRangeEmpty(n) == ~(2 < n - 2)

\* the inner loop looking for 1 in place of n - 1
RECURSIVE SquareLoop_mut(_, _, _)
SquareLoop_mut(x, j, n) ==
    IF j <= 0 THEN FALSE
    ELSE LET y == modpow(x, 2, n)
         IN  y = 1 \/ SquareLoop_mut(y, j - 1, n)

\* the inner loop: square x up to j times looking for n - 1
RECURSIVE SquareLoop(_, _, _)
SquareLoop(x, j, n) ==
    IF j <= 0 THEN FALSE
    ELSE LET y == modpow(x, 2, n)
         IN  y = n - 1 \/ SquareLoop(y, j - 1, n)

\* one pass of the 'witness loop: TRUE continues, FALSE returns false
WitnessPasses(n, a) ==
    LET d == OddPart(n - 1)
        s == TwoExp(n - 1)
        x == modpow(a, d, n)
    IN  x = 1 \/ x = n - 1 \/ SquareLoop(x, s - 1, n)

\* ------------------------------------------------------- key derivation
\* the candidates of generate_prime: top and bottom bit forced to 1
RECURSIVE Pow2(_)
Pow2(e) == IF e = 0 THEN 1 ELSE 2 * Pow2(e - 1)

Candidates(b) == {c \in Pow2(b - 1)..(Pow2(b) - 1) : c % 2 = 1}

\* extended_gcd_int multiplying y by the remainder in place of the quotient
RECURSIVE extended_gcd_int_mut(_, _)
extended_gcd_int_mut(a, b) ==
    IF b = 0 THEN <<a, 1, 0>>
    ELSE LET r == extended_gcd_int_mut(b, rem(a, b))
         IN  <<r[1], r[3], r[2] - rem(a, b) * r[3]>>

\* extended_gcd_int: <<g, x, y>> with a*x + b*y = g
RECURSIVE extended_gcd_int(_, _)
extended_gcd_int(a, b) ==
    IF b = 0 THEN <<a, 1, 0>>
    ELSE LET r == extended_gcd_int(b, rem(a, b))
         IN  <<r[1], r[3], r[2] - (a \div b) * r[3]>>

\* modinv testing the coefficient x in place of the gcd g
modinv_mut_x(a, m) ==
    LET r == extended_gcd_int(a, m)
    IN  IF r[2] # 1 THEN None
        ELSE rem(rem(r[2], m) + m, m)

\* modinv without the normalisation of x into [0, m)
modinv_mut(a, m) ==
    LET r == extended_gcd_int(a, m)
    IN  IF r[1] # 1 THEN None
        ELSE rem(r[2], m)

modinv(a, m) ==
    LET r == extended_gcd_int(a, m)
    IN  IF r[1] # 1 THEN None
        ELSE rem(rem(r[2], m) + m, m)

\* ----------------------------------------------------------------- cipher
\* a panic of the running program (an arithmetic underflow, an expect)
Fault == 0 - 2

\* the values the rejection sampling of paillier_encrypt can return
Blinders(n) == {r \in 0..(n - 1) : r > 1 /\ gcd(r, n) = 1}

\* paillier_encrypt leaving the blinding term r^n out of the product
paillier_encrypt_mut(pk, m, r) ==
    LET n == pk[1]
        g == pk[2]
        n_sq == n * n
        gm == modpow(g, m, n_sq)
    IN  gm % n_sq

\* paillier_encrypt once the blinding factor r is drawn
paillier_encrypt(pk, m, r) ==
    LET n == pk[1]
        g == pk[2]
        n_sq == n * n
        gm == modpow(g, m, n_sq)
        rn == modpow(r, n, n_sq)
    IN  (gm * rn) % n_sq

\* paillier_decrypt multiplying by lambda in place of mu
paillier_decrypt_mut(sk, pk, c) ==
    LET n == pk[1]
        lambda == sk[1]
        n_sq == n * n
        u == modpow(c, lambda, n_sq)
    IN  IF u < 1 THEN Fault
        ELSE LET l_u == (u - 1) \div n
             IN  (l_u * lambda) % n

\* paillier_decrypt; u - 1 underflows on BigUint when u = 0
paillier_decrypt(sk, pk, c) ==
    LET n == pk[1]
        lambda == sk[1]
        mu == sk[2]
        n_sq == n * n
        u == modpow(c, lambda, n_sq)
    IN  IF u < 1 THEN Fault
        ELSE LET l_u == (u - 1) \div n
             IN  (l_u * mu) % n

\* ------------------------------------------------------- homomorphic ops
\* paillier_add adding the ciphertexts
paillier_add_mut(a, b, pk) ==
    LET n == pk[1]
        n_sq == n * n
    IN  (a + b) % n_sq

paillier_add(a, b, pk) ==
    LET n == pk[1]
        n_sq == n * n
    IN  (a * b) % n_sq

\* paillier_scalar_mul multiplying the ciphertext by the scalar
paillier_scalar_mul_mut(c, e, pk) ==
    LET n == pk[1]
        n_sq == n * n
    IN  (c * e) % n_sq

paillier_scalar_mul(c, e, pk) ==
    LET n == pk[1]
        n_sq == n * n
    IN  modpow(c, e, n_sq)

\* paillier_subtract multiplying by c2 itself
paillier_subtract_mut_pos(a, b, pk) ==
    LET n == pk[1]
        n_sq == n * n
    IN  (a * b) % n_sq

\* paillier_subtract raising c2 to n in place of n - 1
paillier_subtract_mut(a, b, pk) ==
    LET n == pk[1]
        n_sq == n * n
        c2_inv == modpow(b, n, n_sq)
    IN  (a * c2_inv) % n_sq

paillier_subtract(a, b, pk) ==
    LET n == pk[1]
        n_sq == n * n
        neg_one == n - 1
        c2_inv == modpow(b, neg_one, n_sq)
    IN  (a * c2_inv) % n_sq

\* paillier_difference without the signed reinterpretation
paillier_difference_mut(a, b, pk, sk) ==
    LET diff_cipher == paillier_subtract(a, b, pk)
        diff_mod == paillier_decrypt(sk, pk, diff_cipher)
    IN  IF diff_mod = Fault THEN <<TRUE, 0>>
        ELSE <<FALSE, diff_mod>>

\* <<fault, signed value>>
paillier_difference(a, b, pk, sk) ==
    LET diff_cipher == paillier_subtract(a, b, pk)
        diff_mod == paillier_decrypt(sk, pk, diff_cipher)
        half_n == pk[1] \div 2
    IN  IF diff_mod = Fault THEN <<TRUE, 0>>
        ELSE IF diff_mod > half_n THEN <<FALSE, diff_mod - pk[1]>>
        ELSE <<FALSE, diff_mod>>

\* paillier_compare with the operands of the difference swapped
paillier_compare_mut(pk, sk, a, b, ra, rb) ==
    LET ca == paillier_encrypt(pk, a, ra)
        cb == paillier_encrypt(pk, b, rb)
        n == pk[1]
        n_sq == n * n
        neg_one == n - 1
        c1_inv == modpow(ca, neg_one, n_sq)
        c_diff == (cb * c1_inv) % n_sq
        diff == paillier_decrypt(sk, pk, c_diff)
        half_n == n \div 2
    IN  IF diff = Fault THEN <<TRUE, ca, cb, FALSE>>
        ELSE IF diff > half_n THEN <<FALSE, ca, cb, FALSE>>
        ELSE <<FALSE, ca, cb, TRUE>>

\* paillier_compare once its two blinding factors are drawn:
\* <<fault, c1, c2, m1 >= m2>>
paillier_compare(pk, sk, a, b, ra, rb) ==
    LET ca == paillier_encrypt(pk, a, ra)
        cb == paillier_encrypt(pk, b, rb)
        n == pk[1]
        n_sq == n * n
        neg_one == n - 1
        c2_inv == modpow(cb, neg_one, n_sq)
        c_diff == (ca * c2_inv) % n_sq
        diff == paillier_decrypt(sk, pk, c_diff)
        half_n == n \div 2
    IN  IF diff = Fault THEN <<TRUE, ca, cb, FALSE>>
        ELSE IF diff > half_n THEN <<FALSE, ca, cb, FALSE>>
        ELSE <<FALSE, ca, cb, TRUE>>

\* ----------------------------------------------------------------- Init
Idle ==
    /\ mr_n = None /\ mr_k = 0 /\ mr_i = 0 /\ mr_pc = "idle"
    /\ p = None /\ q = None
    /\ pubkey = <<None, None>> /\ privkey = <<None, None>>
    /\ m1 = None /\ m2 = None /\ c1 = None /\ c2 = None
    /\ r1 = None /\ r2 = None
    /\ inv_a = None /\ inv_m = None /\ inv_x = None
    /\ k = None /\ op = "none" /\ out = None /\ sdiff = 0 /\ ge = FALSE
    /\ depth = 0

Init ==
    /\ pc = "gen_p"
    /\ bits \in 1..MaxBits
    /\ Idle

\* -------------------------------------------------------- is_prime steps
\* entry of is_prime(n, rounds)
IsPrimeCall(n, rounds) ==
    /\ mr_pc = "idle"
    /\ mr_n' = n
    /\ mr_k' = rounds
    /\ mr_i' = 0
    /\ mr_pc' = IsPrimeEntry(n)

\* one iteration of the 'witness loop, or its exit
WitnessRound ==
    /\ mr_pc = "loop"
    /\ IF mr_i >= mr_k
       THEN mr_pc' = "true" /\ mr_i' = mr_i
       ELSE IF WitnessRangeEmpty(mr_n)
       THEN mr_pc' = "panic" /\ mr_i' = mr_i
       ELSE \E a \in Witnesses(mr_n) :
                IF WitnessPasses(mr_n, a)
                THEN mr_pc' = "loop" /\ mr_i' = mr_i + 1
                ELSE mr_pc' = "false" /\ mr_i' = mr_i
    /\ pc' = IF mr_pc' = "panic" /\ pc # "test" THEN "panic" ELSE pc
    /\ UNCHANGED <<mr_n, mr_k, bits>>
    /\ UNCHANGED keyVars
    /\ UNCHANGED sessVars
    /\ UNCHANGED invVars

\* ------------------------------------------------------- generate_prime
\* the loop body of generate_prime: draw a candidate and test it
generate_prime ==
    /\ pc \in {"gen_p", "gen_q"}
    /\ \E cand \in Candidates(bits) : IsPrimeCall(cand, MillerRabinRounds)
    /\ UNCHANGED <<pc, bits>>
    /\ UNCHANGED keyVars
    /\ UNCHANGED sessVars
    /\ UNCHANGED invVars

\* is_prime returned false: next iteration of the loop
generate_prime_retry ==
    /\ pc \in {"gen_p", "gen_q"}
    /\ mr_pc = "false"
    /\ mr_pc' = "idle" /\ mr_n' = None /\ mr_k' = 0 /\ mr_i' = 0
    /\ UNCHANGED <<pc, bits>>
    /\ UNCHANGED keyVars
    /\ UNCHANGED sessVars
    /\ UNCHANGED invVars

\* is_prime returned true: generate_prime returns the candidate
generate_prime_return ==
    /\ pc \in {"gen_p", "gen_q"}
    /\ mr_pc = "true"
    /\ IF pc = "gen_p"
       THEN p' = mr_n /\ q' = q /\ pc' = "gen_q"
       ELSE q' = mr_n /\ p' = p /\ pc' = "derive"
    /\ mr_pc' = "idle" /\ mr_n' = None /\ mr_k' = 0 /\ mr_i' = 0
    /\ UNCHANGED <<bits, pubkey, privkey>>
    /\ UNCHANGED sessVars
    /\ UNCHANGED invVars

\* -------------------------------------------------------- paillier_keygen
\* the derivation after both primes are drawn
paillier_keygen ==
    /\ pc = "derive"
    /\ LET n == p * q
           phi == (p - 1) * (q - 1)
           g == n + 1
           mu == modinv(phi, n)
       IN  IF mu = None
           THEN pc' = "panic" /\ UNCHANGED <<pubkey, privkey>>
           ELSE /\ pc' = "ready"
                /\ pubkey' = <<n, g>>
                /\ privkey' = <<phi, mu>>
    /\ UNCHANGED <<bits, p, q>>
    /\ UNCHANGED mrVars
    /\ UNCHANGED invVars
    /\ UNCHANGED sessVars

KeyGenNext ==
    \/ generate_prime
    \/ WitnessRound
    \/ generate_prime_retry
    \/ generate_prime_return
    \/ paillier_keygen

\* ------------------------------------------------------ the cipher calls
\* c<slot> = paillier_encrypt(&pubkey, &m), m drawn from M, r from R
Encrypt(slot, M, R) ==
    /\ pc = "ready"
    /\ op = "none"
    /\ IF slot = 1
       THEN /\ c1 = None /\ c2 = None
            /\ \E m \in M, r \in R :
                  m1' = m /\ r1' = r /\ c1' = paillier_encrypt(pubkey, m, r)
            /\ UNCHANGED <<m2, r2, c2>>
       ELSE /\ c1 # None /\ c2 = None /\ depth = 0
            /\ \E m \in M, r \in R :
                  m2' = m /\ r2' = r /\ c2' = paillier_encrypt(pubkey, m, r)
            /\ UNCHANGED <<m1, r1, c1>>
    /\ UNCHANGED <<pc, bits, k, op, out, sdiff, ge, depth>>
    /\ UNCHANGED mrVars
    /\ UNCHANGED invVars
    /\ UNCHANGED keyVars

\* out = paillier_decrypt(&privkey, &pubkey, &c1)
Decrypt ==
    /\ pc = "ready"
    /\ op = "none"
    /\ c1 # None
    /\ op' = "decrypt"
    /\ out' = paillier_decrypt(privkey, pubkey, c1)
    /\ pc' = IF out' = Fault THEN "panic" ELSE pc
    /\ UNCHANGED <<bits, m1, m2, r1, r2, c1, c2, k, sdiff, ge, depth>>
    /\ UNCHANGED mrVars
    /\ UNCHANGED invVars
    /\ UNCHANGED keyVars

\* a ciphertext parsed from its decimal string and decrypted:
\* c1 = BigUint::parse_bytes(..); out = paillier_decrypt(&privkey, &pubkey, &c1)
DecryptParsed ==
    /\ pc = "ready"
    /\ op = "none"
    /\ c1 = None
    /\ \E c \in 0..(pubkey[1] * pubkey[1] - 1) :
          /\ c1' = c
          /\ out' = paillier_decrypt(privkey, pubkey, c)
    /\ op' = "decrypt"
    /\ pc' = IF out' = Fault THEN "panic" ELSE pc
    /\ UNCHANGED <<bits, m1, m2, r1, r2, c2, k, sdiff, ge, depth>>
    /\ UNCHANGED mrVars
    /\ UNCHANGED invVars
    /\ UNCHANGED keyVars

\* out = paillier_add(&c1, &c2, &pubkey)
Add ==
    /\ pc = "ready"
    /\ op = "none"
    /\ c1 # None /\ c2 # None
    /\ op' = "add"
    /\ out' = paillier_add(c1, c2, pubkey)
    /\ UNCHANGED <<pc, bits, m1, m2, r1, r2, c1, c2, k, sdiff, ge, depth>>
    /\ UNCHANGED mrVars
    /\ UNCHANGED invVars
    /\ UNCHANGED keyVars

\* the scalars tried: 0..MaxK, and n, n + 1
Scalars(n) == (0..MaxK) \cup {n, n + 1}

\* out = paillier_scalar_mul(&c1, &k, &pubkey)
ScalarMul ==
    /\ pc = "ready"
    /\ op = "none"
    /\ c1 # None /\ c2 # None
    /\ \E e \in Scalars(pubkey[1]) :
          /\ k' = e
          /\ out' = paillier_scalar_mul(c1, e, pubkey)
    /\ op' = "scalar_mul"
    /\ UNCHANGED <<pc, bits, m1, m2, r1, r2, c1, c2, sdiff, ge, depth>>
    /\ UNCHANGED mrVars
    /\ UNCHANGED invVars
    /\ UNCHANGED keyVars

\* out = paillier_subtract(&c1, &c2, &pubkey)
Subtract ==
    /\ pc = "ready"
    /\ op = "none"
    /\ c1 # None /\ c2 # None
    /\ op' = "subtract"
    /\ out' = paillier_subtract(c1, c2, pubkey)
    /\ UNCHANGED <<pc, bits, m1, m2, r1, r2, c1, c2, k, sdiff, ge, depth>>
    /\ UNCHANGED mrVars
    /\ UNCHANGED invVars
    /\ UNCHANGED keyVars

\* sdiff = paillier_difference(&c1, &c2, &pubkey, &privkey)
Difference ==
    /\ pc = "ready"
    /\ op = "none"
    /\ c1 # None /\ c2 # None
    /\ LET r == paillier_difference(c1, c2, pubkey, privkey)
       IN  /\ sdiff' = r[2]
           /\ pc' = IF r[1] THEN "panic" ELSE pc
    /\ op' = "difference"
    /\ UNCHANGED <<bits, m1, m2, r1, r2, c1, c2, k, out, ge, depth>>
    /\ UNCHANGED mrVars
    /\ UNCHANGED invVars
    /\ UNCHANGED keyVars

\* ge = paillier_compare(&pubkey, &privkey, &a, &b)
Compare(M, R) ==
    /\ pc = "ready"
    /\ op = "none"
    /\ c1 = None /\ c2 = None
    /\ \E a \in M, b \in M, ra \in R, rb \in R :
          LET r == paillier_compare(pubkey, privkey, a, b, ra, rb)
          IN  /\ m1' = a /\ m2' = b
              /\ r1' = ra /\ r2' = rb
              /\ c1' = r[2] /\ c2' = r[3]
              /\ ge' = r[4]
              /\ pc' = IF r[1] THEN "panic" ELSE pc
    /\ op' = "compare"
    /\ UNCHANGED <<bits, k, out, sdiff, depth>>
    /\ UNCHANGED mrVars
    /\ UNCHANGED invVars
    /\ UNCHANGED keyVars

\* the result of add / scalar_mul / subtract becomes the first operand of
\* the next operation (enc_sum = paillier_add(&enc_sum, ..) in mnist)
Accumulate ==
    /\ pc = "ready"
    /\ op \in {"add", "scalar_mul", "subtract"}
    /\ depth < MaxChain
    /\ c1' = out
    /\ m1' = None
    /\ r1' = None
    /\ op' = "none"
    /\ out' = None
    /\ k' = None
    /\ depth' = depth + 1
    /\ UNCHANGED <<pc, bits, m2, r2, c2, sdiff, ge>>
    /\ UNCHANGED mrVars
    /\ UNCHANGED invVars
    /\ UNCHANGED keyVars

\* operands of the arithmetic session
SmallPlain(n) == {m \in 0..(n - 1) : m <= MaxM \/ m >= n - 1 - MaxM}
SmallBlind(n) ==
    {r \in Blinders(n) : Cardinality({x \in Blinders(n) : x < r}) < MaxR}

\* operands of the round-trip session: every plaintext, and MaxOver more
AllPlain(n) == 0..(n - 1 + MaxOver)

\* ------------------------------------------- is_prime called on its own
TestNumbers == (0..MaxN) \cup {97, 221, 7919}
TestRounds == (0..MaxRounds) \cup {MillerRabinRounds}

InitPrime ==
    /\ pc = "test"
    /\ bits = 0
    /\ Idle

is_prime ==
    /\ pc = "test"
    /\ \E n \in TestNumbers, rounds \in TestRounds : IsPrimeCall(n, rounds)
    /\ UNCHANGED <<pc, bits>>
    /\ UNCHANGED keyVars
    /\ UNCHANGED sessVars
    /\ UNCHANGED invVars

NextPrime == is_prime \/ WitnessRound

SpecPrime == InitPrime /\ [][NextPrime]_vars

\* ----------------------------------------------- modinv called on its own
InitModinv ==
    /\ pc = "inv"
    /\ bits = 0
    /\ Idle

\* let mu = modinv(&a, &m).expect("Modular inverse should exist.")
modinv_expect ==
    /\ pc = "inv"
    /\ \E a \in 0..MaxMod, m \in 1..MaxMod :
          /\ inv_a' = a
          /\ inv_m' = m
          /\ inv_x' = modinv(a, m)
    /\ pc' = IF inv_x' = None THEN "panic" ELSE "inv_done"
    /\ UNCHANGED bits
    /\ UNCHANGED mrVars
    /\ UNCHANGED keyVars
    /\ UNCHANGED sessVars

NextModinv == modinv_expect

SpecModinv == InitModinv /\ [][NextModinv]_vars

\* the arithmetic session: key generation, two encryptions, operations
Next ==
    \/ KeyGenNext
    \/ Encrypt(1, SmallPlain(pubkey[1]), SmallBlind(pubkey[1]))
    \/ Encrypt(2, SmallPlain(pubkey[1]), SmallBlind(pubkey[1]))
    \/ Decrypt
    \/ Add
    \/ ScalarMul
    \/ Subtract
    \/ Difference
    \/ Compare(SmallPlain(pubkey[1]), SmallBlind(pubkey[1]))
    \/ Accumulate

Spec == Init /\ [][Next]_vars

\* the round-trip session: key generation, one encryption, its decryption
NextCipher ==
    \/ KeyGenNext
    \/ Encrypt(1, AllPlain(pubkey[1]), Blinders(pubkey[1]))
    \/ Decrypt
    \/ DecryptParsed

SpecCipher == Init /\ [][NextCipher]_vars

\* ------------------------------------------------------------ the claims
KeyN == pubkey[1]

\* a key pair is held
HasKey == KeyN # None

\* the key pair comes from two distinct primes (of bits bits each)
ValidKey == HasKey /\ p # q /\ IsPrimeNat(p) /\ IsPrimeNat(q)

Dec(c) == paillier_decrypt(privkey, pubkey, c)

Abs(x) == IF x < 0 THEN 0 - x ELSE x

\* C1: under a key pair from two distinct primes, decrypting the encryption
\* of a plaintext m in [0, n) gives m back, whatever blinding factor was drawn
RoundTrip ==
    (ValidKey /\ op = "decrypt" /\ m1 # None /\ m1 < KeyN) => out = m1

RoundTripWitness ==
    /\ ValidKey /\ op = "decrypt" /\ depth = 0
    /\ m1 = KeyN - 1 /\ out = m1
    /\ c1 # paillier_encrypt(pubkey, m1, 2)

\* C2: under a valid key, the result of add decrypts to the sum modulo n of
\* what its operands decrypt to (and to (m1 + m2) mod n for fresh operands)
AddHomomorphic ==
    (ValidKey /\ op = "add") =>
        /\ Dec(out) = (Dec(c1) + Dec(c2)) % KeyN
        /\ (m1 # None /\ m2 # None) => Dec(out) = (m1 + m2) % KeyN

AddWitness ==
    /\ ValidKey /\ op = "add" /\ depth > 0
    /\ Dec(c1) > 0 /\ Dec(c2) > 0
    /\ Dec(c1) + Dec(c2) >= KeyN

\* C3: under a valid key, scalar_multiply(c, k) decrypts to (k * m) mod n
\* where m is what c decrypts to, for every k >= 0
ScalarLinear ==
    (ValidKey /\ op = "scalar_mul") =>
        /\ out = modpow(c1, k, KeyN * KeyN)
        /\ Dec(out) = (k * Dec(c1)) % KeyN

ScalarWitness ==
    /\ ValidKey /\ op = "scalar_mul"
    /\ k > KeyN /\ Dec(c1) > 1 /\ Dec(out) = Dec(c1)

\* C4: under a valid key, subtract of the encryptions of m1 and m2 decrypts
\* to the residue of m1 - m2 in [0, n)
SubtractHomomorphic ==
    (ValidKey /\ op = "subtract" /\ m1 # None /\ m2 # None) =>
        /\ Dec(out) \in 0..(KeyN - 1)
        /\ Dec(out) = (m1 - m2) % KeyN

SubtractWitness ==
    /\ ValidKey /\ op = "subtract" /\ m1 # None /\ m2 # None
    /\ m1 < m2 /\ Dec(out) = KeyN + m1 - m2

\* C5: under a valid key, signed_difference of the encryptions of m1 and m2
\* is the integer s congruent to m1 - m2 modulo n with -n/2 < s <= n/2,
\* which is m1 - m2 itself when |m1 - m2| < n/2
SignedDifference ==
    (ValidKey /\ op = "difference" /\ m1 # None /\ m2 # None) =>
        /\ pc # "panic"
        /\ 2 * sdiff > 0 - KeyN
        /\ 2 * sdiff <= KeyN
        /\ (sdiff - (m1 - m2)) % KeyN = 0
        /\ (2 * Abs(m1 - m2) < KeyN) => sdiff = m1 - m2

SignedDifferenceWitness ==
    /\ ValidKey /\ op = "difference"
    /\ m1 = 3 /\ m2 = 5 /\ sdiff = 0 - 2

\* C6: under a valid key, compare_ge(m1, m2) with |m1 - m2| < n/2 returns
\* true exactly when m1 >= m2
CompareGE ==
    (ValidKey /\ op = "compare" /\ 2 * Abs(m1 - m2) < KeyN) =>
        /\ pc # "panic"
        /\ ge <=> (m1 >= m2)

CompareWitness ==
    /\ ValidKey /\ op = "compare"
    /\ m1 < m2 /\ 2 * Abs(m1 - m2) < KeyN /\ ~ge

\* C7: a plaintext m >= n handed to encrypt yields no ciphertext
EncryptRejectsOutOfRange ==
    (HasKey /\ m1 # None /\ m1 >= KeyN) => c1 = None

\* C8: every key pair returned by paillier_keygen has n = p*q odd, g = n + 1,
\* lambda = (p-1)(q-1), 0 <= mu < n and mu * lambda = 1 modulo n
KeyValidity ==
    HasKey =>
        /\ KeyN = p * q
        /\ KeyN % 2 = 1
        /\ pubkey[2] = KeyN + 1
        /\ privkey[1] = (p - 1) * (q - 1)
        /\ privkey[2] >= 0 /\ privkey[2] < KeyN
        /\ (privkey[2] * privkey[1]) % KeyN = 1

KeyValidityWitness ==
    /\ pc = "ready" /\ HasKey /\ p # q /\ privkey[2] > 1

\* C9: the modulus of every returned key pair is the product of two
\* distinct odd primes
DistinctPrimes ==
    HasKey => (p # q /\ IsPrimeNat(p) /\ IsPrimeNat(q))

\* C10: is_prime called on a prime never faults and never returns false
PrimeAccepted ==
    (pc = "test" /\ IsPrimeNat(mr_n)) => mr_pc \notin {"panic", "false"}

\* the witnesses that let a composite n through one round
StrongLiars(n) == {a \in Witnesses(n) : WitnessPasses(n, a)}

\* C11 as stated: with at least one round, is_prime never returns true for
\* n < 2, for an even n other than 2, or for 9, 15, 21, 221
RejectsNonPrimes ==
    (/\ pc = "test" /\ mr_k >= 1
     /\ \/ (mr_n # None /\ mr_n < 2)
        \/ (mr_n > 2 /\ mr_n % 2 = 0)
        \/ mr_n \in {9, 15, 21, 221})
    => mr_pc \notin {"true", "panic"}

\* C11 amended: the same for n < 2, even n other than 2 and 9, 15, 21, none
\* of which survives a single round; 221 survives a round exactly on the
\* witnesses 21, 47, 174, 200
RejectsSureNonPrimes ==
    /\ (/\ pc = "test" /\ mr_k >= 1
        /\ \/ (mr_n # None /\ mr_n < 2)
           \/ (mr_n > 2 /\ mr_n % 2 = 0)
           \/ mr_n \in {9, 15, 21})
       => (mr_pc \in {"loop", "false"} /\ mr_i = 0)
    /\ (pc = "test" /\ mr_n = 221 /\ mr_k >= 1)
       => /\ mr_pc # "panic"
          /\ StrongLiars(221) = {21, 47, 174, 200}

RejectsSureNonPrimesWitness ==
    pc = "test" /\ mr_n = 21 /\ mr_k = MillerRabinRounds /\ mr_pc = "false"

\* C12: under a valid key, an encryption of m that drew r1 differs from
\* every encryption of the same m that draws another blinding factor
DistinctBlinding ==
    (ValidKey /\ m1 # None /\ r1 # None /\ c1 # None) =>
        \A r \in Blinders(KeyN) :
            r # r1 => paillier_encrypt(pubkey, m1, r) # c1

DistinctBlindingWitness ==
    /\ ValidKey /\ m1 # None /\ m1 > 0 /\ m1 < KeyN
    /\ r1 = KeyN - 1 /\ c1 = paillier_encrypt(pubkey, m1, r1)

\* C13: modinv(a, m) is None exactly when gcd(a, m) # 1, otherwise the x in
\* [0, m) with a * x = 1 modulo m; on None the expect of key generation
\* aborts and no key pair exists
ModinvCorrect ==
    (pc \in {"inv_done", "panic"} /\ inv_a # None) =>
        /\ (inv_x = None) <=> (gcd(inv_a, inv_m) # 1)
        /\ inv_x # None =>
              /\ inv_x >= 0 /\ inv_x < inv_m
              /\ (inv_a * inv_x - 1) % inv_m = 0
        /\ inv_x = None => (pc = "panic" /\ ~HasKey)
        /\ inv_x # None => pc = "inv_done"

ModinvWitness ==
    pc = "panic" /\ inv_a = 40 /\ inv_m = 55 /\ inv_x = None

\* bit length of x > 0
RECURSIVE BitLen(_)
BitLen(x) == IF x <= 0 THEN 0 ELSE 1 + BitLen(x \div 2)

\* modinv was called on ((pp-1)(qq-1), pp*qq) for distinct odd primes pp, qq
\* (of equal bit length when sameBits)
TotientCall(sameBits) ==
    /\ pc \in {"inv_done", "panic"} /\ inv_a # None
    /\ \E pp \in 3..inv_m :
          LET qq == inv_m \div pp
          IN  /\ pp * qq = inv_m /\ pp # qq
              /\ IsPrimeNat(pp) /\ IsPrimeNat(qq) /\ qq > 2
              /\ inv_a = (pp - 1) * (qq - 1)
              /\ sameBits => BitLen(pp) = BitLen(qq)

\* C14 as stated: for n = p*q with p # q odd primes, gcd((p-1)(q-1), n) = 1,
\* modinv(lambda, n) succeeds and the expect does not abort
TotientCoprime ==
    TotientCall(FALSE) =>
        (gcd(inv_a, inv_m) = 1 /\ inv_x # None /\ pc # "panic")

\* C14 amended: the same for p # q odd primes of equal bit length
TotientCoprimeEqualBits ==
    TotientCall(TRUE) =>
        (gcd(inv_a, inv_m) = 1 /\ inv_x # None /\ pc # "panic")

TotientCoprimeWitness ==
    pc = "inv_done" /\ inv_a = 120 /\ inv_m = 143 /\ inv_x # None

\* the ciphertexts held: the operands, and the result of add, scalar_mul
\* or subtract
HeldCiphertexts ==
    ({c1, c2} \cup (IF op \in {"add", "scalar_mul", "subtract"}
                    THEN {out} ELSE {})) \ {None}

\* C15: under a valid key every ciphertext returned by encrypt or obtained
\* from such by add, scalar_mul and subtract lies in [0, n^2), is coprime to
\* n^2, and has c^lambda mod n^2 = 1 modulo n, so that L divides exactly
CiphertextValid ==
    ValidKey =>
        \A c \in HeldCiphertexts :
            /\ c >= 0 /\ c < KeyN * KeyN
            /\ gcd(c, KeyN * KeyN) = 1
            /\ modpow(c, privkey[1], KeyN * KeyN) % KeyN = 1
            /\ ((modpow(c, privkey[1], KeyN * KeyN) - 1) \div KeyN) * KeyN
                  = modpow(c, privkey[1], KeyN * KeyN) - 1

CiphertextValidWitness ==
    /\ ValidKey /\ depth > 0 /\ op = "subtract"
    /\ out > 1 /\ out # c1 /\ out # c2

\* c2^(n-1) mod n^2, the factor subtract multiplies c1 by
NegatedC2 == modpow(c2, KeyN - 1, KeyN * KeyN)

GeneratePrimeSound ==
    bits >= 2 =>
        /\ mr_pc # "panic"
        /\ \A x \in {p, q} \ {None} :
              x % 2 = 1 /\ Pow2(bits - 1) <= x /\ x < Pow2(bits)

\* C18: under a valid key, decrypt of any c in [0, n^2) completes and
\* returns a value in [0, n)
DecryptTotal ==
    (ValidKey /\ op = "decrypt") =>
        (pc # "panic" /\ out # Fault /\ out >= 0 /\ out < KeyN)

====
